---- MODULE Spec2Model ----
(***************************************************************************)
(* Model of pkg/controller/cache.go (k8scache): the dirty-state aggregator *)
(* fed by the listers (Notify), read and cleared by the converter          *)
(* (GetDirty*, NeedResync, SyncNewObjects), its debounce timer, and the    *)
(* secret / acme / terminating-pod resolvers.                              *)
(***************************************************************************)
EXTENDS Integers, Sequences, FiniteSets, TLC

VARIABLES
    c,          \* the k8scache struct: clear, needResync, config data, dirty lists
    timers,     \* armed time.AfterFunc timers, oldest first
    now,        \* wall clock, milliseconds
    notified,   \* number of updateQueue.Notify() invocations
    hookCalls,  \* keys passed to controller.DeleteSecret, in call order
    pc,         \* position of the consumer goroutine in its read/sync cycle
    ret,        \* what the consumer's getters returned in this cycle
    window,     \* the Notify calls since the last SyncNewObjects, with their time
    lost,       \* events erased by SyncNewObjects that no getter had returned
    nEvents,    \* number of Notify calls so far
    nSyncs,     \* number of SyncNewObjects calls so far
    lastAt,     \* time of the most recent Notify call, -1 before the first
    lastFire,   \* the most recent timer that fired: when, armed when, last event before it
    unnotified, \* whether a Notify call has had no updateQueue.Notify() after it yet:
                \* "none", or "timer" if the latest call found clear set or a timer
                \* not fired yet, "notimer" if it found neither
    armedInWindow, \* timers armed since the last SyncNewObjects
    crossNS,    \* k8scache.crossNS
    bsnArgs,    \* the arguments of a buildSecretName call
    bsnRet,     \* what buildSecretName returned
    secretLister, \* the acme key secret as the secret lister (local mirror) holds it
    secretStore,  \* the acme key secret as the api server holds it
    generated,  \* number of rsa.GenerateKey calls so far
    keyCalls,   \* what the GetKey calls returned, in call order
    cmLister,   \* the acme token configmap as the configmap lister (local mirror) holds it
    cmStore,    \* the acme token configmap as the api server holds it
    setCall,    \* the latest SetToken call: arguments, error, whether the lister had
                \* the configmap, and whether the informer has not run since
    getCall,    \* the latest GetToken call since: arguments, result, and whether it
                \* came before the informer ran
    nSets,      \* number of SetToken calls so far
    tokens,     \* the entries that the SetToken calls that succeeded have left
    podLister,  \* the pods the pod lister (local mirror) holds
    svc,        \* the service passed to GetTerminatingPods
    terminating, \* what GetTerminatingPods returned
    mutex,      \* stateMutex: the writer holding it, and the number of readers
    held,       \* the (old, cur) of the Notify call that holds stateMutex
    gc,         \* the GlobalConfig call: its position and what it has read
    put         \* the latest GetKey, SetToken or CreateOrUpdate* call: the remote
                \* calls it issued, what it found and what it returned

lockVars == <<mutex, held, gc>>

aggVars == <<c, timers, now, notified, hookCalls, pc, ret, window, lost,
             nEvents, nSyncs, lastAt, lastFire, unnotified, armedInWindow, lockVars>>

refVars == <<crossNS, bsnArgs, bsnRet>>

keyVars == <<secretLister, secretStore, generated, keyCalls>>

tokVars == <<cmLister, cmStore, setCall, getCall, nSets, tokens>>

podVars == <<podLister, svc, terminating>>

\* what the aggregator leaves alone
nonAgg == <<refVars, keyVars, tokVars, podVars, put>>

vars == <<aggVars, refVars, keyVars, tokVars, podVars, put>>

----------------------------------------------------------------------------
(* Bounds of the model *)

MaxEvents == 2
MaxSyncs == 1
MaxTime == 1000

(* Program constants *)

\* 500*time.Millisecond, the delay of the debounce timer
Delay == 500

globalConfigMapKey == "ing/global"
tcpConfigMapKey == "ing/tcp"

----------------------------------------------------------------------------
(* Objects delivered by the listers *)

NoData == "-"
NilData == "nil"

Obj(kind, ns, name, data) == [kind |-> kind, ns |-> ns, name |-> name, data |-> data]

\* the nil interface value
Nil == Obj("nil", "", "", NoData)

Ingresses == {Obj("Ingress", "a", n, NoData) : n \in {"x"}}
Services == {Obj("Service", "a", n, NoData) : n \in {"x"}}
Secrets == {Obj("Secret", "a", n, NoData) : n \in {"x"}}
EndpointsObjs == {Obj("Endpoints", "a", n, NoData) : n \in {"x"}}
Pods == {Obj("Pod", "a", n, NoData) : n \in {"x"}}
ConfigMaps == {Obj("ConfigMap", "ing", n, "d1") : n \in {"global", "tcp", "other"}}

Objects == Ingresses \cup Services \cup Secrets \cup EndpointsObjs \cup Pods \cup ConfigMaps

\* (old, cur) pairs the listers deliver: resync, add, update, delete
Events == {<<Nil, Nil>>} \cup {<<Nil, o>> : o \in Objects}
            \cup {<<o, o>> : o \in Objects} \cup {<<o, Nil>> : o \in Objects}

\* fmt.Sprintf("%s/%s", namespace, name)
Key(o) == o.ns \o "/" \o o.name

----------------------------------------------------------------------------
(* buildSecretName *)

MaxRefLen == 3

Chars == {"a", "b", "/"}

RECURSIVE StringsUpTo(_)
StringsUpTo(n) ==
    IF n = 0 THEN {<<>>}
    ELSE LET shorter == StringsUpTo(n - 1)
         IN shorter \cup {Append(w, ch) : w \in shorter, ch \in Chars}

Slashes(key) == {i \in 1..Len(key) : key[i] = "/"}

\* cache.SplitMetaNamespaceKey: strings.Split(key, "/") and a switch on the number of parts
SplitMetaNamespaceKey(key) ==
    CASE Cardinality(Slashes(key)) = 0 -> [ns |-> <<>>, name |-> key, err |-> ""]
      [] Cardinality(Slashes(key)) = 1 ->
            LET i == CHOOSE j \in Slashes(key) : TRUE
            IN [ns |-> SubSeq(key, 1, i - 1), name |-> SubSeq(key, i + 1, Len(key)),
                err |-> ""]
      [] OTHER -> [ns |-> <<>>, name |-> <<>>, err |-> "unexpected key format"]

BsnOk(ns, name) == [ns |-> ns, name |-> name, err |-> ""]
BsnErr(msg) == [ns |-> <<>>, name |-> <<>>, err |-> msg]

\* mutant: the namespace of the reference is not compared with the default one
buildSecretNameUnchecked(cross, defaultNamespace, secretName) ==
    LET sp == SplitMetaNamespaceKey(secretName)
    IN IF sp.err # "" THEN BsnErr(sp.err)
       ELSE IF defaultNamespace = <<>> THEN BsnOk(sp.ns, sp.name)
       ELSE IF sp.ns = <<>> THEN BsnOk(defaultNamespace, sp.name)
       ELSE BsnOk(sp.ns, sp.name)

buildSecretName(cross, defaultNamespace, secretName) ==
    LET sp == SplitMetaNamespaceKey(secretName)
    IN IF sp.err # "" THEN BsnErr(sp.err)
       ELSE IF defaultNamespace = <<>> THEN BsnOk(sp.ns, sp.name)
       ELSE IF sp.ns = <<>> THEN BsnOk(defaultNamespace, sp.name)
       ELSE IF cross \/ sp.ns = defaultNamespace THEN BsnOk(sp.ns, sp.name)
       ELSE BsnErr("cross-namespace reading is disabled")

NoCall == [called |-> FALSE, defaultNamespace |-> <<>>, secretName |-> <<>>]

RefIdle ==
    /\ crossNS = FALSE
    /\ bsnArgs = NoCall
    /\ bsnRet = BsnOk(<<>>, <<>>)

CallBuildSecretName(defaultNamespace, secretName) ==
    /\ ~bsnArgs.called
    /\ bsnArgs' = [called |-> TRUE, defaultNamespace |-> defaultNamespace,
                   secretName |-> secretName]
    /\ bsnRet' = buildSecretName(crossNS, defaultNamespace, secretName)
    /\ UNCHANGED <<crossNS, aggVars, keyVars, tokVars, podVars, put>>

----------------------------------------------------------------------------
(* The acme account key: GetKey, CreateOrUpdateSecret *)

MaxKeyCalls == 5

\* an entry of secret.Data: present or not, pem.Decode finds a block or not,
\* x509.ParsePKCS1PrivateKey accepts its bytes or not, and the key they encode
Entry(found, pem, pkcs1, key) == [found |-> found, pem |-> pem, pkcs1 |-> pkcs1, key |-> key]

NoEntry == Entry(FALSE, FALSE, FALSE, 0)

\* pem.EncodeToMemory of x509.MarshalPKCS1PrivateKey(key)
PemEncode(key) == Entry(TRUE, TRUE, TRUE, key)

NoSecret == [exists |-> FALSE, tlsKey |-> NoEntry]

SecretWith(entry) == [exists |-> TRUE, tlsKey |-> entry]

\* the secrets the api server may hold at start: none, one without the key entry,
\* one whose entry is no pem, one whose pem is no private key, one with a key
SecretStates ==
    {NoSecret, SecretWith(NoEntry), SecretWith(Entry(TRUE, FALSE, FALSE, 0)),
     SecretWith(Entry(TRUE, TRUE, FALSE, 0)), SecretWith(PemEncode(0))}

KeyOk(key) == [err |-> "", key |-> key]
KeyErr(msg) == [err |-> msg, key |-> -1]

\* mutant: the api server is asked whether the secret exists
CreateOrUpdateSecretFromStore(lister, store, secret) ==
    IF store.exists THEN [store |-> secret, err |-> "", verb |-> "Update"]
    ELSE [store |-> secret, err |-> "", verb |-> "Create"]

\* CreateOrUpdateSecret: Create if the lister has no such secret, Update if it has;
\* the api server refuses to create what exists and to update what does not
CreateOrUpdateSecret(lister, store, secret) ==
    IF ~lister.exists
    THEN IF store.exists THEN [store |-> store, err |-> "already exists", verb |-> "Create"]
         ELSE [store |-> secret, err |-> "", verb |-> "Create"]
    ELSE IF store.exists THEN [store |-> secret, err |-> "", verb |-> "Update"]
         ELSE [store |-> store, err |-> "not found", verb |-> "Update"]

\* no GetKey, SetToken or CreateOrUpdate* call yet, or one without a remote call
NoPut == [calls |-> <<>>, err |-> "", kind |-> "", inLister |-> FALSE, inStore |-> FALSE,
          stored |-> FALSE, changed |-> FALSE, content |-> <<>>]

\* a call that went through CreateOrUpdateSecret or CreateOrUpdateConfigMap: the
\* remote calls with their errors, the error returned, whether the lister and the
\* api server had the object, whether the api server holds the content after, and
\* whether the call changed what the api server holds, and the object passed
PutOf(kind, lister, store, content, res) ==
    [calls |-> <<[verb |-> res.verb, err |-> res.err]>>, err |-> res.err, kind |-> kind,
     inLister |-> lister.exists, inStore |-> store.exists, stored |-> res.store = content,
     changed |-> res.store # store, content |-> content]

\* mutant: an entry that cannot be read counts as no key
GetKeyReadRegenerates(lister) ==
    IF ~lister.exists THEN KeyOk(-1)
    ELSE IF ~lister.tlsKey.found THEN KeyErr("does not have a key")
    ELSE IF ~lister.tlsKey.pem THEN KeyOk(-1)
    ELSE IF ~lister.tlsKey.pkcs1 THEN KeyOk(-1)
    ELSE KeyOk(lister.tlsKey.key)

\* GetKey up to the generation: the key read from the lister's secret
GetKeyRead(lister) ==
    IF ~lister.exists THEN KeyOk(-1)
    ELSE IF ~lister.tlsKey.found THEN KeyErr("does not have a key")
    ELSE IF ~lister.tlsKey.pem THEN KeyErr("has not a valid pem encoded private key")
    ELSE IF ~lister.tlsKey.pkcs1 THEN KeyErr("error parsing acme client private key")
    ELSE KeyOk(lister.tlsKey.key)

\* the whole of GetKey
GetKey ==
    LET read == GetKeyRead(secretLister)
        fresh == generated + 1
        res == CreateOrUpdateSecret(secretLister, secretStore, SecretWith(PemEncode(fresh)))
    IN /\ IF read.err = "" /\ read.key = -1
          THEN /\ generated' = fresh
               /\ secretStore' = res.store
               /\ keyCalls' = Append(keyCalls, IF res.err # "" THEN KeyErr(res.err)
                                               ELSE KeyOk(fresh))
               /\ put' = PutOf("Secret", secretLister, secretStore,
                               SecretWith(PemEncode(fresh)), res)
          ELSE /\ keyCalls' = Append(keyCalls, read)
               /\ put' = NoPut
               /\ UNCHANGED <<generated, secretStore>>
       /\ UNCHANGED <<secretLister, aggVars, refVars, tokVars, podVars>>

\* the informer brings the lister up to date with the api server
SecretInformer ==
    /\ secretLister # secretStore
    /\ secretLister' = secretStore
    /\ UNCHANGED <<secretStore, generated, keyCalls, aggVars, refVars, tokVars, podVars, put>>

KeyIdle ==
    /\ secretLister = NoSecret
    /\ secretStore = NoSecret
    /\ generated = 0
    /\ keyCalls = <<>>

----------------------------------------------------------------------------
(* The acme token store: GetToken, SetToken, CreateOrUpdateConfigMap *)

MaxSets == 2

Domains == {"d1", "d2"}
Uris == {<<"/", "x">>, <<"/", "z">>, <<"/", "x", "=", "y">>}
Tokens == {<<>>, <<"t">>, <<"y", "=", "t">>}

\* strings.HasPrefix, strings.TrimPrefix
HasPrefix(str, prefix) ==
    Len(str) >= Len(prefix) /\ SubSeq(str, 1, Len(prefix)) = prefix

TrimPrefix(str, prefix) ==
    IF HasPrefix(str, prefix) THEN SubSeq(str, Len(prefix) + 1, Len(str)) ELSE str

\* a configmap: data maps some of the domains to a string
NoEntries == [x \in {} |-> <<>>]

NoConfigMap == [exists |-> FALSE, data |-> NoEntries]

ConfigMapWith(data) == [exists |-> TRUE, data |-> data]

\* config.Data[domain] = value
Upsert(data, domain, value) ==
    [x \in (DOMAIN data) \cup {domain} |-> IF x = domain THEN value ELSE data[x]]

\* delete(config.Data, domain)
Delete(data, domain) == [x \in (DOMAIN data) \ {domain} |-> data[x]]

\* mutant: the entry is not tested for the prefix
GetTokenUnchecked(lister, domain, uri) ==
    IF ~lister.exists THEN <<>>
    ELSE IF domain \notin DOMAIN lister.data THEN <<>>
    ELSE TrimPrefix(lister.data[domain], uri \o <<"=">>)

\* GetToken
GetToken(lister, domain, uri) ==
    IF ~lister.exists THEN <<>>
    ELSE IF domain \notin DOMAIN lister.data THEN <<>>
    ELSE IF ~HasPrefix(lister.data[domain], uri \o <<"=">>) THEN <<>>
    ELSE TrimPrefix(lister.data[domain], uri \o <<"=">>)

\* SetToken: the change it makes to config.Data
SetTokenData(data, domain, uri, token) ==
    IF token # <<>> THEN Upsert(data, domain, uri \o <<"=">> \o token)
    ELSE Delete(data, domain)

\* CreateOrUpdateConfigMap: Create if the lister has no such configmap, Update if
\* it has; the api server refuses to create what exists and to update what does not
CreateOrUpdateConfigMap(lister, store, cm) ==
    IF ~lister.exists
    THEN IF store.exists THEN [store |-> store, err |-> "already exists", verb |-> "Create"]
         ELSE [store |-> cm, err |-> "", verb |-> "Create"]
    ELSE IF store.exists THEN [store |-> cm, err |-> "", verb |-> "Update"]
         ELSE [store |-> store, err |-> "not found", verb |-> "Update"]

NoSet == [called |-> FALSE, domain |-> "", uri |-> <<>>, token |-> <<>>, err |-> "",
          inLister |-> FALSE, fresh |-> FALSE]

NoGet == [called |-> FALSE, domain |-> "", uri |-> <<>>, token |-> <<>>, atOnce |-> FALSE]

\* the whole of SetToken; config is the lister's own object when the lister has
\* one, so the change of config.Data is a change of the lister's object
CallSetToken(domain, uri, token) ==
    LET config == IF cmLister.exists THEN cmLister ELSE ConfigMapWith(NoEntries)
        changed == ConfigMapWith(SetTokenData(config.data, domain, uri, token))
        res == CreateOrUpdateConfigMap(cmLister, cmStore, changed)
    IN /\ cmLister' = IF cmLister.exists THEN changed ELSE cmLister
       /\ cmStore' = res.store
       /\ put' = PutOf("ConfigMap", cmLister, cmStore, changed, res)
       /\ setCall' = [called |-> TRUE, domain |-> domain, uri |-> uri, token |-> token,
                      err |-> res.err, inLister |-> cmLister.exists, fresh |-> TRUE]
       /\ getCall' = NoGet
       /\ nSets' = nSets + 1
       /\ tokens' = IF res.err = "" THEN SetTokenData(tokens, domain, uri, token) ELSE tokens
       /\ UNCHANGED <<aggVars, refVars, keyVars, podVars>>

CallGetToken(domain, uri) ==
    /\ getCall' = [called |-> TRUE, domain |-> domain, uri |-> uri,
                   token |-> GetToken(cmLister, domain, uri),
                   atOnce |-> setCall.called /\ setCall.fresh]
    /\ UNCHANGED <<cmLister, cmStore, setCall, nSets, tokens, aggVars, refVars, keyVars, podVars, put>>

\* the informer brings the lister up to date with the api server
ConfigInformer ==
    /\ cmLister # cmStore
    /\ cmLister' = cmStore
    /\ setCall' = [setCall EXCEPT !.fresh = FALSE]
    /\ UNCHANGED <<cmStore, getCall, nSets, tokens, aggVars, refVars, keyVars, podVars, put>>

TokIdle ==
    /\ cmLister = NoConfigMap
    /\ cmStore = NoConfigMap
    /\ setCall = NoSet
    /\ getCall = NoGet
    /\ nSets = 0
    /\ tokens = NoEntries

----------------------------------------------------------------------------
(* GetTerminatingPods, isTerminatingPod *)

MaxPods == 2

Namespaces == {"a", "b"}

\* label maps: of pods, and of service selectors
NoLabels == [k \in {} |-> ""]
AppX == [k \in {"app"} |-> "x"]
AppY == [k \in {"app"} |-> "y"]
AppXTierY == [k \in {"app", "tier"} |-> IF k = "app" THEN "x" ELSE "y"]

LabelMaps == {NoLabels, AppX, AppY, AppXTierY}

\* a pod: namespace, labels, DeletionTimestamp != nil, Status.Reason, Status.PodIP
AllPods ==
    [ns : Namespaces, labels : LabelMaps, deleting : BOOLEAN,
     reason : {"", "NodeLost"}, podIP : {"", "10.0.0.1"}]

AllServices == [ns : Namespaces, selector : {NoLabels, AppX, AppXTierY}]

\* the sets of at most n pods
RECURSIVE PodSetsUpTo(_)
PodSetsUpTo(n) ==
    IF n = 0 THEN {{}}
    ELSE LET prev == PodSetsUpTo(n - 1)
         IN  prev \cup {ps \cup {p} : ps \in prev, p \in AllPods}

\* the "k=v" strings of the selector, as labels.Parse reads them back:
\* one equality requirement for each
Requirements(selector) ==
    {[key |-> k, value |-> selector[k]] : k \in DOMAIN selector}

\* the parsed selector matches a label map: every requirement is met
Matches(reqs, labels) ==
    \A r \in reqs : r.key \in DOMAIN labels /\ labels[r.key] = r.value

\* c.listers.podLister.Pods(namespace).List(selector)
ListPods(lister, namespace, reqs) ==
    {p \in lister : p.ns = namespace /\ Matches(reqs, p.labels)}

\* mutant: a pod of a lost node counts as terminating
isTerminatingPodLost(service, pod) ==
    /\ service.ns = pod.ns
    /\ \A k \in DOMAIN service.selector :
          k \in DOMAIN pod.labels /\ service.selector[k] = pod.labels[k]
    /\ pod.deleting /\ pod.podIP # ""

isTerminatingPod(service, pod) ==
    /\ service.ns = pod.ns
    /\ \A k \in DOMAIN service.selector :
          k \in DOMAIN pod.labels /\ service.selector[k] = pod.labels[k]
    /\ pod.deleting /\ pod.reason # "NodeLost" /\ pod.podIP # ""

GetTerminatingPods(lister, service) ==
    {p \in ListPods(lister, service.ns, Requirements(service.selector)) :
        isTerminatingPod(service, p)}

NotAsked == [called |-> FALSE, pods |-> {}]

CallGetTerminatingPods ==
    /\ ~terminating.called
    /\ terminating' = [called |-> TRUE, pods |-> GetTerminatingPods(podLister, svc)]
    /\ UNCHANGED <<podLister, svc, aggVars, refVars, keyVars, tokVars, put>>

PodIdle ==
    /\ podLister = {}
    /\ svc = [ns |-> "a", selector |-> NoLabels]
    /\ terminating = NotAsked

----------------------------------------------------------------------------
(* createCache *)

\* mutant: the cache is constructed with the clear flag unset
NewCacheNotClear ==
    [clear |-> FALSE, needResync |-> FALSE,
     globalConfigMapData |-> NilData, tcpConfigMapData |-> NilData,
     newGlobalConfigMapData |-> NilData, newTCPConfigMapData |-> NilData,
     delIngresses |-> <<>>, updIngresses |-> <<>>, addIngresses |-> <<>>,
     newEndpoints |-> <<>>,
     delServices |-> <<>>, updServices |-> <<>>, addServices |-> <<>>,
     delSecrets |-> <<>>, updSecrets |-> <<>>, addSecrets |-> <<>>,
     newPods |-> <<>>]

NewCache ==
    [clear |-> TRUE, needResync |-> FALSE,
     globalConfigMapData |-> NilData, tcpConfigMapData |-> NilData,
     newGlobalConfigMapData |-> NilData, newTCPConfigMapData |-> NilData,
     delIngresses |-> <<>>, updIngresses |-> <<>>, addIngresses |-> <<>>,
     newEndpoints |-> <<>>,
     delServices |-> <<>>, updServices |-> <<>>, addServices |-> <<>>,
     delSecrets |-> <<>>, updSecrets |-> <<>>, addSecrets |-> <<>>,
     newPods |-> <<>>]

NoRet ==
    [needResync |-> FALSE,
     delIngresses |-> <<>>, updIngresses |-> <<>>, addIngresses |-> <<>>,
     newEndpoints |-> <<>>,
     delServices |-> <<>>, updServices |-> <<>>, addServices |-> <<>>,
     delSecrets |-> <<>>, updSecrets |-> <<>>, addSecrets |-> <<>>,
     newPods |-> <<>>]

----------------------------------------------------------------------------
(* Notify *)

\* mutant: the flag is assigned on every event
NotifyResyncAssigned(s, old, cur) == [s EXCEPT !.needResync = (old = Nil /\ cur = Nil)]

\* if old == nil && cur == nil { c.needResync = true }
NotifyResync(s, old, cur) ==
    IF old = Nil /\ cur = Nil THEN [s EXCEPT !.needResync = TRUE] ELSE s

\* if old != nil { switch old.(type) ... }
NotifyOld(s, old, cur) ==
    IF old = Nil \/ cur # Nil THEN s
    ELSE CASE old.kind = "Ingress" -> [s EXCEPT !.delIngresses = Append(@, old)]
           [] old.kind = "Service" -> [s EXCEPT !.delServices = Append(@, old)]
           [] old.kind = "Secret" -> [s EXCEPT !.delSecrets = Append(@, old)]
           [] OTHER -> s

\* mutant: the hook is called for every event with an old secret
NotifyHookOnUpdate(calls, old, cur) ==
    IF old # Nil /\ old.kind = "Secret" THEN Append(calls, Key(old)) ELSE calls

\* c.controller.DeleteSecret(...) inside the *api.Secret case of the old switch
NotifyHook(calls, old, cur) ==
    IF old # Nil /\ old.kind = "Secret" /\ cur = Nil THEN Append(calls, Key(old)) ELSE calls

\* mutant: the data of a watched configmap becomes current at once
NotifyConfigMapCurrent(s, cm) ==
    CASE Key(cm) = globalConfigMapKey -> [s EXCEPT !.globalConfigMapData = cm.data]
      [] Key(cm) = tcpConfigMapKey -> [s EXCEPT !.tcpConfigMapData = cm.data]
      [] OTHER -> s

\* case *api.ConfigMap of the cur switch
NotifyConfigMap(s, cm) ==
    CASE Key(cm) = globalConfigMapKey -> [s EXCEPT !.newGlobalConfigMapData = cm.data]
      [] Key(cm) = tcpConfigMapKey -> [s EXCEPT !.newTCPConfigMapData = cm.data]
      [] OTHER -> s

\* if cur != nil { switch cur.(type) ... }
NotifyCur(s, old, cur) ==
    IF cur = Nil THEN s
    ELSE CASE cur.kind = "Ingress" ->
                IF old = Nil THEN [s EXCEPT !.addIngresses = Append(@, cur)]
                ELSE [s EXCEPT !.updIngresses = Append(@, cur)]
           [] cur.kind = "Endpoints" -> [s EXCEPT !.newEndpoints = Append(@, cur)]
           [] cur.kind = "Service" ->
                IF old = Nil THEN [s EXCEPT !.addServices = Append(@, cur)]
                ELSE [s EXCEPT !.updServices = Append(@, cur)]
           [] cur.kind = "Secret" ->
                IF old = Nil THEN [s EXCEPT !.addSecrets = Append(@, cur)]
                ELSE [s EXCEPT !.updSecrets = Append(@, cur)]
           [] cur.kind = "ConfigMap" -> NotifyConfigMap(s, cur)
           [] cur.kind = "Pod" -> [s EXCEPT !.newPods = Append(@, cur)]
           [] OTHER -> s

\* mutant: a timer is armed by every event
NotifyArmAlways(ts, clear, t) == Append(ts, [armed |-> t, fire |-> t + Delay])

\* mutant: every event restarts the delay of the pending timer
NotifyArmRestart(ts, clear, t) == <<[armed |-> t, fire |-> t + Delay]>>

\* mutant: the test of the clear flag is inverted
NotifyArmInverted(ts, clear, t) ==
    IF ~clear THEN Append(ts, [armed |-> t, fire |-> t + Delay]) ELSE ts

\* if c.clear { time.AfterFunc(500*time.Millisecond, ...) }
NotifyArm(ts, clear, t) ==
    IF clear THEN Append(ts, [armed |-> t, fire |-> t + Delay]) ELSE ts

\* the whole handler, under stateMutex.Lock()
Notify(old, cur) ==
    /\ c' = [NotifyCur(NotifyOld(NotifyResync(c, old, cur), old, cur), old, cur)
                EXCEPT !.clear = FALSE]
    /\ hookCalls' = NotifyHook(hookCalls, old, cur)
    /\ timers' = NotifyArm(timers, c.clear, now)
    /\ window' = Append(window, [old |-> old, cur |-> cur, at |-> now])
    /\ nEvents' = nEvents + 1
    /\ lastAt' = now
    /\ unnotified' = IF c.clear \/ timers # <<>> THEN "timer" ELSE "notimer"
    /\ armedInWindow' = armedInWindow + Len(timers') - Len(timers)
    /\ UNCHANGED nonAgg
    /\ UNCHANGED <<now, notified, pc, ret, lost, nSyncs, lastFire>>

----------------------------------------------------------------------------
(* The debounce timer *)

\* the func() { c.updateQueue.Notify() } of time.AfterFunc
TimerFire ==
    /\ timers # <<>>
    /\ timers' = Tail(timers)
    /\ notified' = notified + 1
    /\ lastFire' = [at |-> now, armed |-> Head(timers).armed, lastEvent |-> lastAt]
    /\ unnotified' = "none"
    /\ UNCHANGED nonAgg
    /\ UNCHANGED <<c, now, hookCalls, pc, ret, window, lost, nEvents, nSyncs, lastAt,
                   armedInWindow, lockVars>>

\* time passes until the oldest armed timer is due
Elapse ==
    /\ timers # <<>>
    /\ now < Head(timers).fire
    /\ now' = Head(timers).fire
    /\ UNCHANGED nonAgg
    /\ UNCHANGED <<c, timers, notified, hookCalls, pc, ret, window, lost,
                   nEvents, nSyncs, lastAt, lastFire, unnotified, armedInWindow>>

\* time passes by d, not beyond the moment the oldest armed timer is due
Tick(d) ==
    /\ now + d <= MaxTime
    /\ timers # <<>> => now + d <= Head(timers).fire
    /\ now' = now + d
    /\ UNCHANGED nonAgg
    /\ UNCHANGED <<c, timers, notified, hookCalls, pc, ret, window, lost,
                   nEvents, nSyncs, lastAt, lastFire, unnotified, armedInWindow>>

----------------------------------------------------------------------------
(* The consumer: NeedResync, GetDirty*, then SyncNewObjects *)

Cycle == <<"NeedResync", "GetDirtyIngresses", "GetDirtyEndpoints", "GetDirtyServices",
           "GetDirtySecrets", "GetDirtyPods", "SyncNewObjects">>

NextPc(p) == IF p = Len(Cycle) THEN 1 ELSE p + 1

readFrame == <<c, timers, now, notified, hookCalls, window, lost, nEvents, nSyncs,
               lastAt, lastFire, unnotified, armedInWindow, nonAgg>>

\* under stateMutex.RLock()
NeedResync ==
    /\ Cycle[pc] = "NeedResync"
    /\ ret' = [ret EXCEPT !.needResync = c.needResync]
    /\ pc' = NextPc(pc)
    /\ UNCHANGED readFrame

\* return c.globalConfigMapData, c.newGlobalConfigMapData
GlobalConfig(s) == [cur |-> s.globalConfigMapData, new |-> s.newGlobalConfigMapData]

GetDirtyIngresses ==
    /\ Cycle[pc] = "GetDirtyIngresses"
    /\ ret' = [ret EXCEPT !.delIngresses = c.delIngresses,
                          !.updIngresses = c.updIngresses,
                          !.addIngresses = c.addIngresses]
    /\ pc' = NextPc(pc)
    /\ UNCHANGED readFrame

GetDirtyEndpoints ==
    /\ Cycle[pc] = "GetDirtyEndpoints"
    /\ ret' = [ret EXCEPT !.newEndpoints = c.newEndpoints]
    /\ pc' = NextPc(pc)
    /\ UNCHANGED readFrame

GetDirtyServices ==
    /\ Cycle[pc] = "GetDirtyServices"
    /\ ret' = [ret EXCEPT !.delServices = c.delServices,
                          !.updServices = c.updServices,
                          !.addServices = c.addServices]
    /\ pc' = NextPc(pc)
    /\ UNCHANGED readFrame

GetDirtySecrets ==
    /\ Cycle[pc] = "GetDirtySecrets"
    /\ ret' = [ret EXCEPT !.delSecrets = c.delSecrets,
                          !.updSecrets = c.updSecrets,
                          !.addSecrets = c.addSecrets]
    /\ pc' = NextPc(pc)
    /\ UNCHANGED readFrame

GetDirtyPods ==
    /\ Cycle[pc] = "GetDirtyPods"
    /\ ret' = [ret EXCEPT !.newPods = c.newPods]
    /\ pc' = NextPc(pc)
    /\ UNCHANGED readFrame

\* mutant: the clear flag is not set again
SyncStateNotCleared(s) ==
    [s EXCEPT !.newPods = <<>>, !.newEndpoints = <<>>,
              !.delSecrets = <<>>, !.updSecrets = <<>>, !.addSecrets = <<>>,
              !.delIngresses = <<>>, !.updIngresses = <<>>, !.addIngresses = <<>>,
              !.globalConfigMapData =
                  IF s.newGlobalConfigMapData # NilData THEN s.newGlobalConfigMapData ELSE @,
              !.newGlobalConfigMapData = NilData,
              !.tcpConfigMapData =
                  IF s.newTCPConfigMapData # NilData THEN s.newTCPConfigMapData ELSE @,
              !.newTCPConfigMapData = NilData,
              !.needResync = FALSE]

\* the assignments of SyncNewObjects, under stateMutex.Lock()
SyncState(s) ==
    [s EXCEPT !.newPods = <<>>, !.newEndpoints = <<>>,
              !.delSecrets = <<>>, !.updSecrets = <<>>, !.addSecrets = <<>>,
              !.delIngresses = <<>>, !.updIngresses = <<>>, !.addIngresses = <<>>,
              !.globalConfigMapData =
                  IF s.newGlobalConfigMapData # NilData THEN s.newGlobalConfigMapData ELSE @,
              !.newGlobalConfigMapData = NilData,
              !.tcpConfigMapData =
                  IF s.newTCPConfigMapData # NilData THEN s.newTCPConfigMapData ELSE @,
              !.newTCPConfigMapData = NilData,
              !.clear = TRUE, !.needResync = FALSE]

ListFields == {"delIngresses", "updIngresses", "addIngresses", "newEndpoints",
               "delServices", "updServices", "addServices",
               "delSecrets", "updSecrets", "addSecrets", "newPods"}

RECURSIVE SumOver(_, _)
SumOver(S, f) ==
    IF S = {} THEN 0
    ELSE LET x == CHOOSE y \in S : TRUE IN f[x] + SumOver(S \ {x}, f)

\* how many entries (and resync requests) SyncNewObjects erases that the getters
\* of this cycle had not returned
Erased(s, t, r) ==
    SumOver(ListFields, [f \in ListFields |->
                IF t[f] = <<>> /\ Len(s[f]) > Len(r[f]) THEN Len(s[f]) - Len(r[f]) ELSE 0])
    + (IF s.needResync /\ ~r.needResync THEN 1 ELSE 0)

SyncNewObjects ==
    /\ Cycle[pc] = "SyncNewObjects"
    /\ c' = SyncState(c)
    /\ lost' = lost + Erased(c, SyncState(c), ret)
    /\ ret' = NoRet
    /\ window' = <<>>
    /\ nSyncs' = nSyncs + 1
    /\ armedInWindow' = 0
    /\ pc' = NextPc(pc)
    /\ UNCHANGED nonAgg
    /\ UNCHANGED <<timers, now, notified, hookCalls, nEvents, lastAt, lastFire, unnotified>>

----------------------------------------------------------------------------
(* The aggregator: producers, timer and consumer *)

NoFire == [at |-> -1, armed |-> -1, lastEvent |-> -1]

\* sync.RWMutex{}
Unlocked == [writer |-> "", readers |-> 0]

NoCfgRead == [pc |-> "idle", cur |-> NilData, new |-> NilData]

AggInit ==
    /\ c = NewCache
    /\ timers = <<>>
    /\ now = 0
    /\ notified = 0
    /\ hookCalls = <<>>
    /\ pc = 1
    /\ ret = NoRet
    /\ window = <<>>
    /\ lost = 0
    /\ nEvents = 0
    /\ nSyncs = 0
    /\ lastAt = -1
    /\ lastFire = NoFire
    /\ unnotified = "none"
    /\ armedInWindow = 0
    /\ mutex = Unlocked
    /\ held = <<Nil, Nil>>
    /\ gc = NoCfgRead

Init ==
    /\ AggInit
    /\ RefIdle
    /\ KeyIdle
    /\ TokIdle
    /\ PodIdle
    /\ put = NoPut

Consumer ==
    \/ NeedResync /\ UNCHANGED lockVars
    \/ GetDirtyIngresses /\ UNCHANGED lockVars
    \/ GetDirtyEndpoints /\ UNCHANGED lockVars
    \/ GetDirtyServices /\ UNCHANGED lockVars
    \/ GetDirtySecrets /\ UNCHANGED lockVars
    \/ GetDirtyPods /\ UNCHANGED lockVars
    \/ nSyncs < MaxSyncs /\ SyncNewObjects /\ UNCHANGED lockVars

\* the clock is left out: a timer fires any time after it was armed
Next ==
    \/ \E e \in Events : nEvents < MaxEvents /\ Notify(e[1], e[2]) /\ UNCHANGED lockVars
    \/ TimerFire
    \/ Consumer

Spec == Init /\ [][Next]_vars

----------------------------------------------------------------------------
(* Bursts of events on the clock: the timer fires when it is due *)

MaxBurst == 3

\* one kind of event is enough: the debounce code does not look at the event
BurstEvents == {<<Nil, o>> : o \in Ingresses} \cup {<<o, Nil>> : o \in Ingresses}

\* a burst: Notify calls with no SyncNewObjects between them

\* clock steps, milliseconds
TickSteps == {100, 390}

TimerDue ==
    /\ timers # <<>>
    /\ now = Head(timers).fire
    /\ TimerFire

NextT ==
    \/ \E e \in BurstEvents : nEvents < MaxBurst /\ Notify(e[1], e[2]) /\ UNCHANGED lockVars
    \/ \E d \in TickSteps : Tick(d) /\ UNCHANGED lockVars
    \/ Elapse /\ UNCHANGED lockVars
    \/ TimerDue

SpecT == Init /\ [][NextT]_vars

(* Bursts without the clock, the armed timers eventually firing *)

NextB ==
    \/ \E e \in BurstEvents : nEvents < MaxBurst /\ Notify(e[1], e[2]) /\ UNCHANGED lockVars
    \/ TimerFire
    \/ Consumer

FairSpec == Init /\ [][NextB]_vars /\ WF_vars(TimerFire)

----------------------------------------------------------------------------
(* Versions of the watched configmaps, over several syncs *)

MaxCfgEvents == 2
MaxCfgSyncs == 2

\* the watched configmaps and one other, with data d1, data d2 and without data
ConfigMapVersions ==
    {Obj("ConfigMap", "ing", n, d) : n \in {"global", "tcp", "other"},
                                     d \in {"d1", "d2", NilData}}

\* updates of every version, adds of the first, and a delete
CfgEvents ==
    {<<o, o>> : o \in ConfigMapVersions}
        \cup {<<Nil, o>> : o \in {v \in ConfigMapVersions : v.data = "d1"}}
        \cup {<<o, Nil>> : o \in {v \in ConfigMapVersions : v.data = "d1" /\ v.name = "global"}}

NextCfg ==
    \/ \E e \in CfgEvents : nEvents < MaxCfgEvents /\ Notify(e[1], e[2]) /\ UNCHANGED lockVars
    \/ TimerFire
    \/ NeedResync /\ UNCHANGED lockVars
    \/ GetDirtyIngresses /\ UNCHANGED lockVars
    \/ GetDirtyEndpoints /\ UNCHANGED lockVars
    \/ GetDirtyServices /\ UNCHANGED lockVars
    \/ GetDirtySecrets /\ UNCHANGED lockVars
    \/ GetDirtyPods /\ UNCHANGED lockVars
    \/ nSyncs < MaxCfgSyncs /\ SyncNewObjects /\ UNCHANGED lockVars

SpecCfg == Init /\ [][NextCfg]_vars

----------------------------------------------------------------------------
(* stateMutex: the calls as lock, critical section, unlock *)

MaxLockEvents == 2
MaxLockSyncs == 1

\* two versions of the global configmap, and an ingress
LockEvents ==
    {<<o, o>> : o \in {v \in ConfigMapVersions : v.name = "global" /\ v.data # NilData}}
        \cup {<<Nil, o>> : o \in Ingresses}

\* c.stateMutex.Lock() of Notify
NotifyLock(old, cur) ==
    /\ mutex = Unlocked
    /\ mutex' = [mutex EXCEPT !.writer = "Notify"]
    /\ held' = <<old, cur>>
    /\ UNCHANGED <<gc, nonAgg>>
    /\ UNCHANGED <<c, timers, now, notified, hookCalls, pc, ret, window, lost, nEvents,
                   nSyncs, lastAt, lastFire, unnotified, armedInWindow>>

\* the body of Notify and its deferred c.stateMutex.Unlock()
NotifyUnlock ==
    /\ mutex.writer = "Notify"
    /\ Notify(held[1], held[2])
    /\ mutex' = Unlocked
    /\ held' = <<Nil, Nil>>
    /\ UNCHANGED gc

\* c.stateMutex.RLock() of NeedResync and GetDirty*, c.stateMutex.Lock() of
\* SyncNewObjects
ConsumerLock ==
    /\ mutex.writer = ""
    /\ mutex.readers = 0
    /\ mutex' = IF Cycle[pc] = "SyncNewObjects"
                THEN [mutex EXCEPT !.writer = "SyncNewObjects"]
                ELSE [mutex EXCEPT !.readers = 1]
    /\ UNCHANGED <<held, gc, nonAgg>>
    /\ UNCHANGED <<c, timers, now, notified, hookCalls, pc, ret, window, lost, nEvents,
                   nSyncs, lastAt, lastFire, unnotified, armedInWindow>>

\* the body of the consumer's call and its deferred unlock
ConsumerUnlock ==
    /\ mutex.writer = "SyncNewObjects" \/ mutex.readers = 1
    /\ \/ NeedResync
       \/ GetDirtyIngresses
       \/ GetDirtyEndpoints
       \/ GetDirtyServices
       \/ GetDirtySecrets
       \/ GetDirtyPods
       \/ SyncNewObjects
    /\ mutex' = Unlocked
    /\ UNCHANGED <<held, gc>>

\* GlobalConfig takes no lock: it reads c.globalConfigMapData ...
GlobalConfigReadCur ==
    /\ gc.pc = "idle"
    /\ gc' = [pc |-> "cur", cur |-> GlobalConfig(c).cur, new |-> NilData]
    /\ UNCHANGED <<mutex, held, nonAgg>>
    /\ UNCHANGED <<c, timers, now, notified, hookCalls, pc, ret, window, lost, nEvents,
                   nSyncs, lastAt, lastFire, unnotified, armedInWindow>>

\* ... and then c.newGlobalConfigMapData, and returns
GlobalConfigReadNew ==
    /\ gc.pc = "cur"
    /\ gc' = [gc EXCEPT !.pc = "idle", !.new = GlobalConfig(c).new]
    /\ UNCHANGED <<mutex, held, nonAgg>>
    /\ UNCHANGED <<c, timers, now, notified, hookCalls, pc, ret, window, lost, nEvents,
                   nSyncs, lastAt, lastFire, unnotified, armedInWindow>>

NextLock ==
    \/ \E e \in LockEvents : nEvents < MaxLockEvents /\ NotifyLock(e[1], e[2])
    \/ NotifyUnlock
    \/ (Cycle[pc] = "SyncNewObjects" => nSyncs < MaxLockSyncs) /\ ConsumerLock
    \/ ConsumerUnlock
    \/ GlobalConfigReadCur
    \/ GlobalConfigReadNew
    \/ TimerFire

SpecLock == Init /\ [][NextLock]_vars

----------------------------------------------------------------------------
(* Secret references: every call of buildSecretName *)

InitRef ==
    /\ AggInit
    /\ KeyIdle
    /\ TokIdle
    /\ PodIdle
    /\ put = NoPut
    /\ crossNS \in BOOLEAN
    /\ bsnArgs = NoCall
    /\ bsnRet = BsnOk(<<>>, <<>>)

NextRef ==
    \E d \in {<<>>, <<"a">>, <<"b">>}, s \in StringsUpTo(MaxRefLen) :
        CallBuildSecretName(d, s)

SpecRef == InitRef /\ [][NextRef]_vars

----------------------------------------------------------------------------
(* The account key: GetKey calls and the informer, no other writer of the secret; *)
(* at start the lister has seen the secret of the api server or not yet          *)

InitKey ==
    /\ AggInit
    /\ RefIdle
    /\ TokIdle
    /\ PodIdle
    /\ put = NoPut
    /\ secretStore \in SecretStates
    /\ secretLister \in {NoSecret, secretStore}
    /\ generated = 0
    /\ keyCalls = <<>>

NextKey ==
    \/ Len(keyCalls) < MaxKeyCalls /\ GetKey
    \/ SecretInformer

SpecKey == InitKey /\ [][NextKey]_vars

----------------------------------------------------------------------------
(* The token store: SetToken and GetToken calls and the informer; at start the *)
(* lister has seen the configmap of the api server or not yet                  *)

ConfigMapStates ==
    {NoConfigMap, ConfigMapWith(NoEntries),
     ConfigMapWith([x \in {"d2"} |-> <<"/", "x", "=", "t">>])}

InitTok ==
    /\ AggInit
    /\ RefIdle
    /\ KeyIdle
    /\ PodIdle
    /\ put = NoPut
    /\ cmStore \in ConfigMapStates
    /\ cmLister \in {NoConfigMap, cmStore}
    /\ setCall = NoSet
    /\ getCall = NoGet
    /\ nSets = 0
    /\ tokens = NoEntries

NextTok ==
    \/ \E d \in Domains, u \in Uris, t \in Tokens : nSets < MaxSets /\ CallSetToken(d, u, t)
    \/ \E d \in Domains, u \in Uris : CallGetToken(d, u)
    \/ ConfigInformer

SpecTok == InitTok /\ [][NextTok]_vars

----------------------------------------------------------------------------
(* Terminating pods: every service against every small set of pods *)

InitPod ==
    /\ AggInit
    /\ RefIdle
    /\ KeyIdle
    /\ TokIdle
    /\ podLister \in PodSetsUpTo(MaxPods)
    /\ svc \in AllServices
    /\ terminating = NotAsked
    /\ put = NoPut

NextPod == CallGetTerminatingPods

SpecPod == InitPod /\ [][NextPod]_vars

----------------------------------------------------------------------------
(* CreateOrUpdateSecret and CreateOrUpdateConfigMap called with any content,  *)
(* the lister behind the api server, ahead of it, or level with it            *)

CallCreateOrUpdateSecret(secret) ==
    LET res == CreateOrUpdateSecret(secretLister, secretStore, secret)
    IN /\ secretStore' = res.store
       /\ put' = PutOf("Secret", secretLister, secretStore, secret, res)
       /\ UNCHANGED <<secretLister, generated, keyCalls, aggVars, refVars, tokVars, podVars>>

CallCreateOrUpdateConfigMap(cm) ==
    LET res == CreateOrUpdateConfigMap(cmLister, cmStore, cm)
    IN /\ cmStore' = res.store
       /\ put' = PutOf("ConfigMap", cmLister, cmStore, cm, res)
       /\ UNCHANGED <<cmLister, setCall, getCall, nSets, tokens, aggVars, refVars, keyVars, podVars>>

InitPut ==
    /\ AggInit
    /\ RefIdle
    /\ PodIdle
    /\ put = NoPut
    /\ secretStore \in SecretStates
    /\ secretLister \in SecretStates
    /\ generated = 0
    /\ keyCalls = <<>>
    /\ cmStore \in ConfigMapStates
    /\ cmLister \in ConfigMapStates
    /\ setCall = NoSet
    /\ getCall = NoGet
    /\ nSets = 0
    /\ tokens = NoEntries

NextPut ==
    \/ \E secret \in SecretStates \ {NoSecret} : CallCreateOrUpdateSecret(secret)
    \/ \E cm \in ConfigMapStates \ {NoConfigMap} : CallCreateOrUpdateConfigMap(cm)
    \/ SecretInformer
    \/ ConfigInformer

SpecPut == InitPut /\ [][NextPut]_vars

----------------------------------------------------------------------------
(* Claims *)

\* C1: no change event is dropped: whatever SyncNewObjects erases from a dirty
\* list (or from the resync flag) had been returned by a getter of the consumer
\* before, for every interleaving of Notify with the consumer's reads and sync.
NoEventDropped == lost = 0

\* C2: after a SyncNewObjects with no Notify after it, every dirty list is empty
\* and the resync flag is false.
CleanAfterSync ==
    (nSyncs > 0 /\ window = <<>>) =>
        /\ \A f \in ListFields : c[f] = <<>>
        /\ ~c.needResync

\* the dirty list an event of the window belongs to
Into(e, f) ==
    LET add == e.old = Nil /\ e.cur # Nil
        upd == e.old # Nil /\ e.cur # Nil
        del == e.old # Nil /\ e.cur = Nil
    IN CASE f = "addIngresses" -> add /\ e.cur.kind = "Ingress"
         [] f = "updIngresses" -> upd /\ e.cur.kind = "Ingress"
         [] f = "delIngresses" -> del /\ e.old.kind = "Ingress"
         [] f = "addServices" -> add /\ e.cur.kind = "Service"
         [] f = "updServices" -> upd /\ e.cur.kind = "Service"
         [] f = "delServices" -> del /\ e.old.kind = "Service"
         [] f = "addSecrets" -> add /\ e.cur.kind = "Secret"
         [] f = "updSecrets" -> upd /\ e.cur.kind = "Secret"
         [] f = "delSecrets" -> del /\ e.old.kind = "Secret"
         [] f = "newEndpoints" -> e.cur # Nil /\ e.cur.kind = "Endpoints"
         [] f = "newPods" -> e.cur # Nil /\ e.cur.kind = "Pod"

RECURSIVE Classified(_, _)
Classified(w, f) ==
    IF w = <<>> THEN <<>>
    ELSE LET e == Head(w)
             rest == Classified(Tail(w), f)
         IN IF Into(e, f) THEN <<IF e.cur # Nil THEN e.cur ELSE e.old>> \o rest ELSE rest

\* C3: each dirty list holds exactly the events of the current window (the Notify
\* calls since the last SyncNewObjects) classified into it, in arrival order and
\* with multiplicity, and nothing from an earlier window.
ListsAreTheWindow == \A f \in ListFields : c[f] = Classified(window, f)

\* C4: a burst of Notify calls with no SyncNewObjects between them arms exactly
\* one timer, so updateQueue.Notify() is invoked once for the burst: none is
\* armed in an empty window, and the later events of a window arm no other.
OneTimerPerBurst ==
    /\ armedInWindow = (IF window = <<>> THEN 0 ELSE 1)
    /\ nSyncs = 0 => notified + Len(timers) = armedInWindow

BurstNotifiedOnce ==
    /\ Len(window) >= 2
    /\ armedInWindow = 1
    /\ timers = <<>>
    /\ notified = 1

\* C5 as claimed: the single updateQueue.Notify() of a burst comes Delay after
\* the last event of the burst.
FiresAfterLastEvent ==
    (nSyncs = 0 /\ notified >= 1) => lastFire.at = lastFire.lastEvent + Delay

\* C5 as amended: the single updateQueue.Notify() of a burst comes Delay after
\* the first event of the burst, whatever events follow within the delay.
FiresAfterFirstEvent ==
    (nSyncs = 0 /\ notified >= 1) =>
        /\ notified = 1
        /\ lastFire.at = window[1].at + Delay

BurstAt0_100_490 ==
    /\ nSyncs = 0
    /\ Len(window) = 3
    /\ window[1].at = 0 /\ window[2].at = 100 /\ window[3].at = 490
    /\ notified = 1
    /\ lastFire.at = 500

\* C6 as claimed: every Notify call is eventually followed by an invocation of
\* updateQueue.Notify().
EveryChangeNotified == (unnotified # "none") ~> (unnotified = "none")

\* C6 as amended: every Notify call that finds the clear flag set (the first
\* since construction or since a SyncNewObjects) or a timer that has not fired
\* yet is eventually followed by an invocation of updateQueue.Notify().
ArmedChangeNotified == (unnotified = "timer") ~> (unnotified = "none")

ChangeNotifiedAfterSync ==
    /\ nSyncs >= 1
    /\ window # <<>>
    /\ unnotified = "none"
    /\ notified >= 1

\* references without a slash: a namespace or a name
Plain == {w \in StringsUpTo(MaxRefLen) : Slashes(w) = {}}

\* C7 as claimed: for every default namespace, the empty one included, a reference
\* ns/name to another namespace fails when cross-namespace access is disabled and
\* resolves to (ns, name) when it is enabled; a bare reference resolves to
\* (defaultNamespace, name).
CrossNamespaceDenied ==
    bsnArgs.called =>
        \A ns \in Plain, name \in Plain :
            /\ (bsnArgs.secretName = ns \o <<"/">> \o name /\ ns # <<>>
                    /\ ns # bsnArgs.defaultNamespace) =>
                  IF crossNS THEN bsnRet = BsnOk(ns, name) ELSE bsnRet.err # ""
            /\ bsnArgs.secretName = name => bsnRet = BsnOk(bsnArgs.defaultNamespace, name)

\* C7 as amended: for every non-empty default namespace a reference ns/name to
\* another namespace fails when cross-namespace access is disabled and resolves
\* to (ns, name) when it is enabled; with an empty default namespace it resolves
\* to (ns, name) whatever the setting; it never resolves to the default
\* namespace; a bare reference resolves to (defaultNamespace, name).
CrossNamespaceDeniedWithDefault ==
    bsnArgs.called =>
        \A ns \in Plain, name \in Plain :
            /\ (bsnArgs.secretName = ns \o <<"/">> \o name /\ ns # <<>>
                    /\ ns # bsnArgs.defaultNamespace) =>
                  /\ bsnArgs.defaultNamespace # <<>> =>
                        IF crossNS THEN bsnRet = BsnOk(ns, name) ELSE bsnRet.err # ""
                  /\ bsnArgs.defaultNamespace = <<>> => bsnRet = BsnOk(ns, name)
                  /\ bsnRet.err = "" => bsnRet.ns # bsnArgs.defaultNamespace
            /\ bsnArgs.secretName = name => bsnRet = BsnOk(bsnArgs.defaultNamespace, name)

CrossNamespaceRefused ==
    /\ bsnArgs.called
    /\ ~crossNS
    /\ bsnArgs.defaultNamespace = <<"a">>
    /\ bsnArgs.secretName = <<"b", "/", "a">>
    /\ bsnRet.err # ""

\* C8: of two consecutive GetKey calls, with no other writer of the secret, the
\* second succeeds and returns the key of the first whenever the first succeeded,
\* also when the first generated the key and the lister has not seen it yet.
GetKeyIdempotent ==
    \A i \in 1..(Len(keyCalls) - 1) :
        keyCalls[i].err = "" =>
            /\ keyCalls[i + 1].err = ""
            /\ keyCalls[i + 1].key = keyCalls[i].key

\* C9: a GetToken(domain, uri) that follows a SetToken(domain, uri, token) at once
\* returns token if the SetToken succeeded with a non-empty token, and the empty
\* string if the token was empty, whether or not the lister had the configmap.
TokenRoundTrip ==
    (getCall.called /\ getCall.atOnce /\ getCall.domain = setCall.domain
            /\ getCall.uri = setCall.uri) =>
        /\ (setCall.token # <<>> /\ setCall.err = "") => getCall.token = setCall.token
        /\ setCall.token = <<>> => getCall.token = <<>>

\* C10: GetTerminatingPods(service) returns exactly the pods of the lister that
\* are in the namespace of the service, carry every label of its selector, have a
\* deletion timestamp, a status reason other than "NodeLost" and a pod IP.
TerminatingPodsExact ==
    terminating.called =>
        \A p \in AllPods :
            p \in terminating.pods <=>
                /\ p \in podLister
                /\ p.ns = svc.ns
                /\ \A k \in DOMAIN svc.selector :
                      k \in DOMAIN p.labels /\ p.labels[k] = svc.selector[k]
                /\ p.deleting
                /\ p.reason # "NodeLost"
                /\ p.podIP # ""

LostNodePodLeftOut ==
    /\ terminating.called
    /\ svc.selector = AppX
    /\ \E p \in terminating.pods, q \in podLister \ terminating.pods :
          q = [p EXCEPT !.reason = "NodeLost"]

\* C11: the current global and tcp config data change only in SyncNewObjects;
\* a Notify changes at most the pending data and leaves the current data that
\* GlobalConfig returns as it was.
CurrentChangesOnlyAtSync ==
    [][/\ (GlobalConfig(c').cur # GlobalConfig(c).cur
              \/ c'.tcpConfigMapData # c.tcpConfigMapData) =>
            (Cycle[pc] = "SyncNewObjects" /\ nSyncs' = nSyncs + 1)
       /\ nEvents' = nEvents + 1 =>
            /\ GlobalConfig(c').cur = GlobalConfig(c).cur
            /\ c'.tcpConfigMapData = c.tcpConfigMapData]_vars

NewVersionPending ==
    /\ GlobalConfig(c).cur = "d1"
    /\ GlobalConfig(c).new = "d2"
    /\ nSyncs = 1

\* the data of the latest event of the window for the configmap key, or dflt
RECURSIVE LastData(_, _, _)
LastData(w, key, dflt) ==
    IF w = <<>> THEN dflt
    ELSE LET e == w[Len(w)]
         IN  IF e.cur # Nil /\ e.cur.kind = "ConfigMap" /\ Key(e.cur) = key THEN e.cur.data
             ELSE LastData(SubSeq(w, 1, Len(w) - 1), key, dflt)

\* C15: after SyncNewObjects the current global (tcp) config is the data of the
\* latest event of the closed window for the global (tcp) key, a configmap
\* without data included, and is unchanged without such an event; the pending
\* data are absent; other configmaps change neither.
PromotesLatestData ==
    [][/\ nSyncs' = nSyncs + 1 =>
            /\ c'.globalConfigMapData =
                   LastData(window, globalConfigMapKey, c.globalConfigMapData)
            /\ c'.tcpConfigMapData = LastData(window, tcpConfigMapKey, c.tcpConfigMapData)
            /\ c'.newGlobalConfigMapData = NilData
            /\ c'.newTCPConfigMapData = NilData
       /\ (nEvents' = nEvents + 1 /\ window'[Len(window')].cur # Nil
               /\ window'[Len(window')].cur.kind = "ConfigMap"
               /\ Key(window'[Len(window')].cur)
                      \notin {globalConfigMapKey, tcpConfigMapKey}) =>
            /\ c'.globalConfigMapData = c.globalConfigMapData
            /\ c'.tcpConfigMapData = c.tcpConfigMapData
            /\ c'.newGlobalConfigMapData = c.newGlobalConfigMapData
            /\ c'.newTCPConfigMapData = c.newTCPConfigMapData]_vars

\* the call holding stateMutex for writing writes the global config fields
WritesGlobalConfig ==
    \/ /\ mutex.writer = "Notify"
       /\ held[2] # Nil /\ held[2].kind = "ConfigMap" /\ Key(held[2]) = globalConfigMapKey
    \/ /\ mutex.writer = "SyncNewObjects"
       /\ c.newGlobalConfigMapData # NilData

\* C12: every read of the aggregator's state runs under stateMutex in shared mode
\* and every write in exclusive mode: no reader holds the lock while a writer
\* does, and GlobalConfig is not reading the current and pending config while
\* Notify or SyncNewObjects is inside the critical section that writes them.
LockDiscipline ==
    /\ mutex.readers > 0 => mutex.writer = ""
    /\ gc.pc # "idle" => ~WritesGlobalConfig

\* a is b, or b with its last elements left out
IsPrefix(a, b) == Len(a) <= Len(b) /\ SubSeq(b, 1, Len(a)) = a

\* C13: a Notify leaves every dirty list as it was or with elements appended, and
\* never resets the resync flag; the flag is set only by a Notify with old and cur
\* both nil; a list is shortened and the flag reset by SyncNewObjects only.
GrowsUntilSync ==
    [][/\ nEvents' = nEvents + 1 =>
            /\ \A f \in ListFields : IsPrefix(c[f], c'[f])
            /\ c.needResync => c'.needResync
       /\ (c'.needResync /\ ~c.needResync) =>
            /\ nEvents' = nEvents + 1
            /\ window'[Len(window')].old = Nil
            /\ window'[Len(window')].cur = Nil
       /\ ((\E f \in ListFields : ~IsPrefix(c[f], c'[f])) \/ (c.needResync /\ ~c'.needResync)) =>
            (Cycle[pc] = "SyncNewObjects" /\ nSyncs' = nSyncs + 1)]_vars

ResyncThenAppended ==
    /\ c.needResync
    /\ Len(window) = 2
    /\ window[1].old = Nil /\ window[1].cur = Nil
    /\ \E f \in ListFields : c[f] # <<>>

\* C14: between two SyncNewObjects calls, and before the first, one timer is
\* armed if a Notify call came in that window and none otherwise: the first
\* Notify of a window, the first after a SyncNewObjects included, arms a timer
\* and the later ones arm none.
OneTimerPerWindow ==
    [][/\ armedInWindow' = (IF window' = <<>> THEN 0 ELSE 1)
       /\ (nEvents' = nEvents + 1 /\ window = <<>>) =>
            /\ Len(timers') = Len(timers) + 1
            /\ timers'[Len(timers')].armed = now
       /\ (nEvents' = nEvents + 1 /\ window # <<>>) => timers' = timers]_vars

FreshTimerAfterSync ==
    /\ nSyncs = 1
    /\ Len(window) = 1
    /\ armedInWindow = 1
    /\ Len(timers) = 2

\* a step of GetKey
IsGetKey == Len(keyCalls') = Len(keyCalls) + 1

\* the entry of the lister's secret is there but is no pem or no private key
Corrupt(secret) ==
    secret.exists /\ secret.tlsKey.found /\ (~secret.tlsKey.pem \/ ~secret.tlsKey.pkcs1)

\* C16 as claimed: GetKey generates a key and persists it through
\* CreateOrUpdateSecret if and only if the key entry is absent, that is the secret
\* is missing or has no key entry; with an entry that is no pem or no private key
\* it returns an error, generates nothing and issues no remote call.
GeneratesOnAbsentEntry ==
    [][IsGetKey =>
          /\ (generated' = generated + 1 /\ Len(put'.calls) = 1)
                <=> (~secretLister.exists \/ ~secretLister.tlsKey.found)
          /\ Corrupt(secretLister) =>
                /\ keyCalls'[Len(keyCalls')].err # ""
                /\ generated' = generated
                /\ put'.calls = <<>>]_vars

\* C16 as amended: GetKey generates a key and persists it through
\* CreateOrUpdateSecret if and only if the lister has no secret; with a secret
\* that has no key entry, or an entry that is no pem or no private key, it returns
\* an error, generates nothing and issues no remote call.
GeneratesOnAbsentSecret ==
    [][IsGetKey =>
          /\ (generated' = generated + 1 /\ Len(put'.calls) = 1) <=> ~secretLister.exists
          /\ generated' # generated + 1 => (generated' = generated /\ put'.calls = <<>>)
          /\ (Corrupt(secretLister) \/ (secretLister.exists /\ ~secretLister.tlsKey.found)) =>
                /\ keyCalls'[Len(keyCalls')].err # ""
                /\ generated' = generated
                /\ put'.calls = <<>>
                /\ secretStore' = secretStore]_vars

CorruptKeyRefused ==
    /\ Corrupt(secretLister)
    /\ keyCalls # <<>>
    /\ keyCalls[Len(keyCalls)].err # ""
    /\ generated = 0
    /\ put.calls = <<>>

\* C17 as claimed: a CreateOrUpdate* call issues one remote call, Create if the
\* lister has no such object and Update if it has, and returns the error of that
\* call; when the api server has the object and the lister has not yet, the call
\* succeeds and the api server holds the content supplied.
PutSucceedsBehindStore ==
    put.kind # "" =>
        /\ Len(put.calls) = 1
        /\ put.calls[1].verb = (IF put.inLister THEN "Update" ELSE "Create")
        /\ put.err = put.calls[1].err
        /\ (put.inStore /\ ~put.inLister) => (put.err = "" /\ put.stored)

\* C17 as amended: a CreateOrUpdate* call issues one remote call, Create if the
\* lister has no such object and Update if it has, and returns the error of that
\* call; it succeeds and the api server holds the content supplied when the
\* lister and the api server agree on the existence of the object; when the api
\* server has the object and the lister has not yet (or the reverse), the call
\* returns the error of the api server and changes nothing there.
PutFailsBehindStore ==
    put.kind # "" =>
        /\ Len(put.calls) = 1
        /\ put.calls[1].verb = (IF put.inLister THEN "Update" ELSE "Create")
        /\ put.err = put.calls[1].err
        /\ put.inStore = put.inLister => (put.err = "" /\ put.stored)
        /\ put.inStore # put.inLister => (put.err # "" /\ ~put.changed)

CreateRefused ==
    /\ put.kind = "Secret"
    /\ put.inStore /\ ~put.inLister
    /\ put.calls = <<[verb |-> "Create", err |-> "already exists"]>>
    /\ put.err = "already exists"

\* C18: a Notify with old a secret and cur nil appends the secret to delSecrets
\* and, in the same critical section, calls controller.DeleteSecret once with the
\* key namespace/name; no other Notify, and no other step, calls it.
DeleteHookOnSecretDelete ==
    [][/\ nEvents' = nEvents + 1 =>
            LET e == window'[Len(window')]
            IN  IF e.old # Nil /\ e.old.kind = "Secret" /\ e.cur = Nil
                THEN /\ c'.delSecrets = Append(c.delSecrets, e.old)
                     /\ hookCalls' = Append(hookCalls, e.old.ns \o "/" \o e.old.name)
                ELSE /\ hookCalls' = hookCalls
                     /\ c'.delSecrets = c.delSecrets
       /\ hookCalls' # hookCalls => nEvents' = nEvents + 1]_vars

SecretDeletedThenUpdated ==
    /\ hookCalls = <<"a/x">>
    /\ Len(c.delSecrets) = 1
    /\ Len(c.updSecrets) = 1

\* C19: the object a SetToken(domain, uri, token) writes has for domain the entry
\* uri=token, or none if token is empty, and has every entry that earlier
\* SetToken calls that succeeded left for the other domains, whatever the lister
\* has seen of the api server.
SetTokenKeepsOthers ==
    [][nSets' = nSets + 1 =>
          LET written == put'.content.data
              domain == setCall'.domain
          IN  /\ \A x \in (DOMAIN tokens) \ {domain} :
                    x \in DOMAIN written /\ written[x] = tokens[x]
              /\ IF setCall'.token # <<>>
                 THEN /\ domain \in DOMAIN written
                      /\ written[domain] = setCall'.uri \o <<"=">> \o setCall'.token
                 ELSE domain \notin DOMAIN written]_vars

\* a step of GetToken
IsGetToken == getCall'.called /\ getCall' # getCall

\* the lister holds for the domain the entry the latest SetToken call made
SeesEntrySet(domain) ==
    /\ setCall.called /\ setCall.domain = domain /\ setCall.token # <<>>
    /\ cmLister.exists /\ domain \in DOMAIN cmLister.data
    /\ cmLister.data[domain] = setCall.uri \o <<"=">> \o setCall.token

HasEquals(str) == \E i \in 1..Len(str) : str[i] = "="

\* C20 as claimed: GetToken returns the empty string when the lister has no
\* configmap or the configmap no entry for the domain, and when the entry was set
\* by SetToken(domain, u, t) and the uri asked for is another one, also a uri that
\* is the part of u before an "="; for u itself it returns t.
GetTokenUriExact ==
    [][IsGetToken =>
          /\ (~cmLister.exists \/ getCall'.domain \notin DOMAIN cmLister.data) =>
                getCall'.token = <<>>
          /\ (SeesEntrySet(getCall'.domain) /\ getCall'.uri # setCall.uri) =>
                getCall'.token = <<>>
          /\ (SeesEntrySet(getCall'.domain) /\ getCall'.uri = setCall.uri) =>
                getCall'.token = setCall.token]_vars

\* C20 as amended: as claimed, for uris without "="; when the entry was set by
\* SetToken(domain, u, t) and u=t begins with the uri asked for followed by "=",
\* GetToken returns the rest of the entry.
GetTokenUriExactWithoutEquals ==
    [][IsGetToken =>
          /\ (~cmLister.exists \/ getCall'.domain \notin DOMAIN cmLister.data) =>
                getCall'.token = <<>>
          /\ (SeesEntrySet(getCall'.domain) /\ getCall'.uri # setCall.uri
                  /\ ~HasEquals(getCall'.uri) /\ ~HasEquals(setCall.uri)) =>
                getCall'.token = <<>>
          /\ (SeesEntrySet(getCall'.domain)
                  /\ HasPrefix(cmLister.data[getCall'.domain], getCall'.uri \o <<"=">>)) =>
                getCall'.token =
                    SubSeq(cmLister.data[getCall'.domain], Len(getCall'.uri) + 2,
                           Len(cmLister.data[getCall'.domain]))
          /\ (SeesEntrySet(getCall'.domain) /\ getCall'.uri = setCall.uri) =>
                getCall'.token = setCall.token]_vars

OtherUriRefused ==
    /\ getCall.called
    /\ SeesEntrySet(getCall.domain)
    /\ getCall.uri # setCall.uri
    /\ ~HasEquals(getCall.uri) /\ ~HasEquals(setCall.uri)
    /\ getCall.token = <<>>

\* C21: for a service with an empty selector GetTerminatingPods returns no pod,
\* whatever pods of its namespace are terminating.
EmptySelectorMatchesNone ==
    (terminating.called /\ DOMAIN svc.selector = {}) => terminating.pods = {}

\* C22: the clear flag is unset exactly when a Notify call has come since the
\* last SyncNewObjects (or since construction); a timer is armed only by a Notify
\* that finds the flag set; a SyncNewObjects leaves the armed timers alone, and
\* every timer armed fires, once; so updateQueue.Notify() is never invoked more
\* often than SyncNewObjects was called, plus one.
ClearFlagBoundsNotifications ==
    /\ [](~c.clear <=> window # <<>>)
    /\ [](notified + Len(timers) <= nSyncs + 1)
    /\ [][/\ Len(timers') > Len(timers) => (nEvents' = nEvents + 1 /\ c.clear)
          /\ nSyncs' = nSyncs + 1 => (timers' = timers /\ notified' = notified)
          /\ notified' # notified =>
                (notified' = notified + 1 /\ timers # <<>> /\ timers' = Tail(timers))]_vars
    /\ \A n \in 1..(MaxSyncs + 2) : (notified + Len(timers) >= n) ~> (notified >= n)

NotifiedTwiceAfterOneSync ==
    /\ nSyncs = 1
    /\ notified = 2
    /\ timers = <<>>
    /\ ~c.clear
    /\ lastFire.armed >= 0

====
